---- MODULE Spec2Model ----
(***************************************************************************)
(* Friendship request handlers (send / accept / decline) over the          *)
(* `friendships` table, as implemented in                                  *)
(* src/server/api/routers/friendship-request-router.ts.                    *)
(*                                                                         *)
(* A row of `friendships` is [id, userId, friendUserId, status].  Each     *)
(* handler call is one step: the guard middleware runs first and the       *)
(* handler body runs only if the guard passed.                             *)
(***************************************************************************)
EXTENDS Integers, FiniteSets, Sequences, TLC

VARIABLES
    friendships,   \* the committed rows of table `friendships`
    last,          \* the last completed call and its outcome
    calls,         \* interleaved execution: the call each request runs
    started        \* interleaved execution: the number of calls begun

vars == <<friendships, last, calls, started>>

----------------------------------------------------------------------------
(* Bounds of the model *)

\* Largest number of rows the table holds in the model.
MaxRows == 3

\* Largest number of calls begun in the interleaved execution.
MaxCalls == 4

\* the ids of the rows of table `users` (read-only for these handlers)
users == {1, 2, 3}

\* the ids a call may name as friendUserId; 4 names no user
Ids == {1, 2, 3, 4}

\* FriendshipStatusSchema.Values
Status == {"requested", "accepted", "declined"}

----------------------------------------------------------------------------
(* Query primitives on a set of rows *)

\* selectFrom('friendships').where('userId','=',u).where('friendUserId','=',f)
EdgeRows(rows, u, f) == {r \in rows : r.userId = u /\ r.friendUserId = f}

\* the statuses held by the rows of the ordered pair (u, f)
EdgeStatuses(rows, u, f) == {r.status : r \in EdgeRows(rows, u, f)}

\* updateTable('friendships').set({status}).where(userId = u).where(friendUserId = f)
UpdatePair(rows, u, f, s) ==
    {IF r.userId = u /\ r.friendUserId = f THEN [r EXCEPT !.status = s] ELSE r
        : r \in rows}

\* updateTable('friendships').set({status}).where('id', '=', id)
UpdateById(rows, id, s) ==
    {IF r.id = id THEN [r EXCEPT !.status = s] ELSE r : r \in rows}

\* the id of a new row.  The handlers only compare ids for equality, so the
\* generated key is represented by a canonical fresh value: the ordered pair
\* and the number of rows the pair then has (rows are never deleted)
NewId(rows, u, f) == <<u, f, Cardinality(EdgeRows(rows, u, f)) + 1>>

\* insertInto('friendships').values({userId, friendUserId, status})
InsertRow(rows, u, f, s) ==
    rows \cup {[id |-> NewId(rows, u, f), userId |-> u, friendUserId |-> f,
                status |-> s]}

\* the value of executeTakeFirst() when no row matches (undefined)
NoRow == <<>>

\* what executeTakeFirst() may return for a select of ids: the id of any
\* matching row, or NoRow when no row matches
TakeFirst(matching) ==
    IF matching = {} THEN {NoRow} ELSE {r.id : r \in matching}

----------------------------------------------------------------------------
(* Guards (middlewares piped after authGuard) *)

\* variant of canSendFriendshipRequest without the lookup in `users`
canSendAnyId(friendUserId) == TRUE

\* canSendFriendshipRequest: a row of `users` with id = friendUserId exists
canSendFriendshipRequest(friendUserId) == friendUserId \in users

\* variant of canAnswerFriendshipRequest without the filter on status
canAnswerAnyStatus(rows, userId, friendUserId) ==
    EdgeRows(rows, friendUserId, userId) # {}

\* canAnswerFriendshipRequest: a row (friendUserId -> session user) with
\* status 'requested' exists
canAnswerFriendshipRequest(rows, userId, friendUserId) ==
    \E r \in rows : /\ r.userId = friendUserId
                     /\ r.friendUserId = userId
                     /\ r.status = "requested"

----------------------------------------------------------------------------
(* Handler bodies, as functions of the table *)

\* variant of send without the lookup: always inserts
sendAlwaysInsert(rows, userId, friendUserId) ==
    InsertRow(rows, userId, friendUserId, "requested")

\* variant of send whose update only re-opens declined rows
sendReopenDeclinedOnly(rows, userId, friendUserId) ==
    IF EdgeRows(rows, userId, friendUserId) # {}
    THEN {IF /\ r.userId = userId
             /\ r.friendUserId = friendUserId
             /\ r.status = "declined"
          THEN [r EXCEPT !.status = "requested"] ELSE r : r \in rows}
    ELSE InsertRow(rows, userId, friendUserId, "requested")

\* send: look up (userId, friendUserId); update it to 'requested' when a row
\* exists, insert a 'requested' row otherwise
sendMutation(rows, userId, friendUserId) ==
    IF EdgeRows(rows, userId, friendUserId) # {}
    THEN UpdatePair(rows, userId, friendUserId, "requested")
    ELSE InsertRow(rows, userId, friendUserId, "requested")

\* variant of accept's first statement that updates nothing
acceptUpdateSkipped(rows, userId, friendUserId) == rows

\* variant of accept's first statement without the filter on friendUserId
acceptUpdateAllOfCaller(rows, userId, friendUserId) ==
    {IF r.userId = userId THEN [r EXCEPT !.status = "accepted"] ELSE r
        : r \in rows}

\* accept, first statement: update where userId = session user and
\* friendUserId = input.friendUserId
acceptUpdate(rows, userId, friendUserId) ==
    UpdatePair(rows, userId, friendUserId, "accepted")

\* accept, second statement: select id where userId = input.friendUserId
\* and friendUserId = session user, executeTakeFirst
existingFriendship(rows, userId, friendUserId) ==
    TakeFirst(EdgeRows(rows, friendUserId, userId))

\* accept, third statement: update the row found by id, or insert
\* (friendUserId -> userId, accepted) when none was found
acceptReciprocal(rows, userId, friendUserId, existing) ==
    IF existing # NoRow
    THEN UpdateById(rows, existing, "accepted")
    ELSE InsertRow(rows, friendUserId, userId, "accepted")

\* the statements of accept's transaction at which a storage failure may be
\* raised; 0 stands for no failure
TxFailPoints == {0, 1, 2, 3}

\* variant of accept whose first statement runs on ctx.db instead of the
\* transaction handle: its update stays when a later statement throws
acceptWithoutRollback(rows, userId, friendUserId, existing, failAt) ==
    IF failAt = 0
    THEN acceptReciprocal(acceptUpdate(rows, userId, friendUserId),
                          userId, friendUserId, existing)
    ELSE IF failAt = 1 THEN rows
    ELSE acceptUpdate(rows, userId, friendUserId)

\* accept: db.transaction().execute(...): every statement runs on the
\* transaction handle t, so the table after the call is the result of all
\* statements when none throws and the table before the call otherwise
acceptTransaction(rows, userId, friendUserId, existing, failAt) ==
    IF failAt = 0
    THEN acceptReciprocal(acceptUpdate(rows, userId, friendUserId),
                          userId, friendUserId, existing)
    ELSE rows

\* variant of decline that also declines the reciprocal rows
declineBothDirections(rows, userId, friendUserId) ==
    UpdatePair(UpdatePair(rows, friendUserId, userId, "declined"),
               userId, friendUserId, "declined")

\* decline: update where userId = input.friendUserId and friendUserId =
\* session user
declineMutation(rows, userId, friendUserId) ==
    UpdatePair(rows, friendUserId, userId, "declined")

----------------------------------------------------------------------------
(* Friend profile reader: myFriendRouter.getById *)

\* SQL NULL / a missing value, represented by a number that is no count
Null == -1

\* the row of table `users` with the given id
UserRow(id) == [id |-> id, fullName |-> "fullName", phoneNumber |-> "phoneNumber"]

\* userTotalFriendCount: accepted rows grouped by userId, with their count
userTotalFriendCount(rows) ==
    {[userId |-> u,
      totalFriendCount |->
          Cardinality({r \in rows : r.userId = u /\ r.status = "accepted"})]
        : u \in {r.userId : r \in {q \in rows : q.status = "accepted"}}}

\* the rows of friendships f1 joined with friendships f2 on friendUserId,
\* with f1.userId = userId, f2.userId = friendUserId and both accepted
MutualJoin(rows, userId, friendUserId) ==
    {j \in rows \X rows :
        /\ j[1].friendUserId = j[2].friendUserId
        /\ j[1].userId = userId
        /\ j[2].userId = friendUserId
        /\ j[1].status = "accepted"
        /\ j[2].status = "accepted"}

\* mutualFriendCountSubquery: count(f1.friendUserId) of the join, grouped by
\* f1.userId: one row per group, so no row when the join is empty
mutualFriendCountSubquery(rows, userId, friendUserId) ==
    {[mutualFriendCount |->
          Cardinality({j \in MutualJoin(rows, userId, friendUserId) :
                          j[1].userId = g})]
        : g \in {j[1].userId : j \in MutualJoin(rows, userId, friendUserId)}}

\* the scalar subquery selecting mutualFriendCount from the subquery: NULL
\* when the subquery has no row
ScalarMutualFriendCount(rows, userId, friendUserId) ==
    IF mutualFriendCountSubquery(rows, userId, friendUserId) = {}
    THEN {Null}
    ELSE {m.mutualFriendCount :
            m \in mutualFriendCountSubquery(rows, userId, friendUserId)}

\* variant of the main query's filter without the condition on status
getByIdAnyStatus(rows, userId, friendUserId) ==
    {r \in rows : /\ r.friendUserId \in users
                  /\ r.userId = userId
                  /\ r.friendUserId = friendUserId}

\* the main query's rows: users joined with friendships on friendUserId,
\* where userId = session user, friendUserId = input and status accepted
getByIdMatches(rows, userId, friendUserId) ==
    {r \in rows : /\ r.friendUserId \in users
                  /\ r.userId = userId
                  /\ r.friendUserId = friendUserId
                  /\ r.status = "accepted"}

\* the columns the main query selects for a matching row: id, fullName,
\* phoneNumber and the scalar subquery as mutualFriendCount
getByIdSelect(r, mutual) ==
    [id |-> UserRow(r.friendUserId).id,
     fullName |-> UserRow(r.friendUserId).fullName,
     phoneNumber |-> UserRow(r.friendUserId).phoneNumber,
     mutualFriendCount |-> mutual]

\* IdSchema: the ids a call may name
IdSchema(v) == v \in Ids

\* NonEmptyStringSchema
NonEmptyStringSchema(v) == v # ""

\* CountSchema: a number that is at least 0; NULL and a missing value fail
CountSchema(v) == v \in Nat

\* the value of a count column of a selected row, Null when the row has no
\* such column
Field(row, name) == IF name \in DOMAIN row THEN row[name] ELSE Null

\* z.object({id, fullName, phoneNumber, totalFriendCount,
\* mutualFriendCount}).parse succeeds on the row
getByIdParses(row) ==
    /\ IdSchema(row.id)
    /\ NonEmptyStringSchema(row.fullName)
    /\ NonEmptyStringSchema(row.phoneNumber)
    /\ CountSchema(Field(row, "totalFriendCount"))
    /\ CountSchema(Field(row, "mutualFriendCount"))

\* what parse returns: the five fields of the schema
getByIdParsed(row) ==
    [id |-> row["id"], fullName |-> row["fullName"],
     phoneNumber |-> row["phoneNumber"],
     totalFriendCount |-> row["totalFriendCount"],
     mutualFriendCount |-> row["mutualFriendCount"]]

----------------------------------------------------------------------------
(* The calls *)

\* a call that returns no data
NoData == <<>>

\* the requests that run interleaved
Procs == {1, 2}

\* the users that call, and are named, in the interleaved execution
ConcUsers == {1, 2}

\* a request that runs no call
NoCall ==
    [op |-> "none", userId |-> 0, friendUserId |-> 0, pc |-> "done",
     result |-> "none", found |-> FALSE, existing |-> NoRow,
     upd |-> {}, ins |-> {}, mixed |-> FALSE]

Call(op, userId, friendUserId, result, failAt) ==
    [op |-> op, userId |-> userId, friendUserId |-> friendUserId,
     result |-> result, failedAt |-> failAt,
     prev |-> EdgeStatuses(friendships, userId, friendUserId),
     data |-> NoData]

Init ==
    /\ friendships = {}
    /\ last = [op |-> "none", userId |-> 0, friendUserId |-> 0,
               result |-> "none", failedAt |-> 0, prev |-> {},
               data |-> NoData]
    /\ calls = [p \in Procs |-> NoCall]
    /\ started = 0

\* variant of send whose guard also rejects the caller's own id
sendRejectsOwnId(userId, friendUserId) ==
    /\ UNCHANGED <<calls, started>>
    /\ IF ~canSendFriendshipRequest(friendUserId) \/ userId = friendUserId
       THEN /\ friendships' = friendships
            /\ last' = Call("send", userId, friendUserId, "BAD_REQUEST", 0)
       ELSE /\ friendships' = sendMutation(friendships, userId, friendUserId)
            /\ Cardinality(friendships') <= MaxRows
            /\ last' = Call("send", userId, friendUserId, "ok", 0)

send(userId, friendUserId) ==
    /\ UNCHANGED <<calls, started>>
    /\ IF ~canSendFriendshipRequest(friendUserId)
       THEN /\ friendships' = friendships
            /\ last' = Call("send", userId, friendUserId, "BAD_REQUEST", 0)
       ELSE /\ friendships' = sendMutation(friendships, userId, friendUserId)
            /\ Cardinality(friendships') <= MaxRows
            /\ last' = Call("send", userId, friendUserId, "ok", 0)

accept(userId, friendUserId) ==
    /\ UNCHANGED <<calls, started>>
    /\ IF ~canAnswerFriendshipRequest(friendships, userId, friendUserId)
       THEN /\ friendships' = friendships
            /\ last' = Call("accept", userId, friendUserId, "BAD_REQUEST", 0)
       ELSE \E failAt \in TxFailPoints :
            \E existing \in existingFriendship(
                    acceptUpdate(friendships, userId, friendUserId),
                    userId, friendUserId) :
               /\ friendships' = acceptTransaction(friendships, userId,
                                                   friendUserId, existing,
                                                   failAt)
               /\ Cardinality(friendships') <= MaxRows
               /\ last' = Call("accept", userId, friendUserId,
                               IF failAt = 0 THEN "ok"
                               ELSE "INTERNAL_SERVER_ERROR", failAt)

decline(userId, friendUserId) ==
    /\ UNCHANGED <<calls, started>>
    /\ IF ~canAnswerFriendshipRequest(friendships, userId, friendUserId)
       THEN /\ friendships' = friendships
            /\ last' = Call("decline", userId, friendUserId, "BAD_REQUEST", 0)
       ELSE /\ friendships' = declineMutation(friendships, userId,
                                              friendUserId)
            /\ last' = Call("decline", userId, friendUserId, "ok", 0)

\* getById: NOT_FOUND when the main query has no row; otherwise the first
\* row is parsed against the result schema, and a row the schema rejects
\* makes the call fail
getById(userId, friendUserId) ==
    /\ UNCHANGED <<calls, started>>
    /\ friendships' = friendships
    /\ IF getByIdMatches(friendships, userId, friendUserId) = {}
       THEN last' = Call("getById", userId, friendUserId, "NOT_FOUND", 0)
       ELSE \E r \in getByIdMatches(friendships, userId, friendUserId) :
            \E mutual \in ScalarMutualFriendCount(friendships, userId,
                                                   friendUserId) :
               IF getByIdParses(getByIdSelect(r, mutual))
               THEN last' = [Call("getById", userId, friendUserId, "ok", 0)
                                EXCEPT !.data =
                                    getByIdParsed(getByIdSelect(r, mutual))]
               ELSE last' = Call("getById", userId, friendUserId,
                                 "INTERNAL_SERVER_ERROR", 0)

Next ==
    \E userId \in users, friendUserId \in Ids :
        \/ send(userId, friendUserId)
        \/ accept(userId, friendUserId)
        \/ decline(userId, friendUserId)
        \/ getById(userId, friendUserId)

Spec == Init /\ [][Next]_vars

----------------------------------------------------------------------------
(* Interleaved execution: every awaited statement of a call is one step *)

\* whether the store enforces one row per (userId, friendUserId); the
\* baseline design has no such constraint
UniquePairs == FALSE

\* request q is running a call other than op for (userId, friendUserId)
RunsOther(q, op, userId, friendUserId) ==
    /\ calls[q].pc # "done"
    /\ \/ calls[q].op # op
       \/ calls[q].userId # userId
       \/ calls[q].friendUserId # friendUserId

\* a request begins a call; the guard runs first.  `mixed` records, for the
\* properties, whether a call has overlapped with a call of another kind
Begin(p, op, userId, friendUserId) ==
    /\ calls[p].pc = "done"
    /\ started < MaxCalls
    /\ started' = started + 1
    /\ calls' = [q \in Procs |->
                    IF q = p
                    THEN [NoCall EXCEPT
                            !.op = op, !.userId = userId,
                            !.friendUserId = friendUserId, !.pc = "guard",
                            !.mixed = \E o \in Procs \ {p} :
                                        RunsOther(o, op, userId, friendUserId)]
                    ELSE [calls[q] EXCEPT
                            !.mixed = calls[q].mixed
                                      \/ RunsOther(q, op, userId, friendUserId)]]
    /\ UNCHANGED <<friendships, last>>

\* the call of request p ends with the given result
Ends(p, result) ==
    calls' = [calls EXCEPT ![p].pc = "done", ![p].result = result]

\* canSendFriendshipRequest, then next()
SendGuard(p) ==
    /\ calls[p].op = "send"
    /\ calls[p].pc = "guard"
    /\ IF canSendFriendshipRequest(calls[p].friendUserId)
       THEN calls' = [calls EXCEPT ![p].pc = "lookup"]
       ELSE Ends(p, "BAD_REQUEST")
    /\ UNCHANGED <<friendships, last, started>>

\* send: const existingRequest = await ... executeTakeFirst()
SendLookup(p) ==
    /\ calls[p].op = "send"
    /\ calls[p].pc = "lookup"
    /\ calls' = [calls EXCEPT
                    ![p].found = EdgeRows(friendships, calls[p].userId,
                                          calls[p].friendUserId) # {},
                    ![p].pc = "write"]
    /\ UNCHANGED <<friendships, last, started>>

\* send: the update when existingRequest was found, the insert otherwise
SendWrite(p) ==
    /\ calls[p].op = "send"
    /\ calls[p].pc = "write"
    /\ IF calls[p].found
       THEN /\ friendships' = UpdatePair(friendships, calls[p].userId,
                                         calls[p].friendUserId, "requested")
            /\ Ends(p, "ok")
       ELSE IF /\ UniquePairs
               /\ EdgeRows(friendships, calls[p].userId,
                            calls[p].friendUserId) # {}
            THEN /\ friendships' = friendships
                 /\ Ends(p, "INTERNAL_SERVER_ERROR")
            ELSE /\ friendships' = InsertRow(friendships, calls[p].userId,
                                             calls[p].friendUserId,
                                             "requested")
                 /\ Ends(p, "ok")
    /\ UNCHANGED <<last, started>>

\* canAnswerFriendshipRequest, then next(): accept opens its transaction,
\* decline goes to its update
AnswerGuard(p) ==
    /\ calls[p].op \in {"accept", "decline"}
    /\ calls[p].pc = "guard"
    /\ IF canAnswerFriendshipRequest(friendships, calls[p].userId,
                                     calls[p].friendUserId)
       THEN calls' = [calls EXCEPT ![p].pc =
                        IF calls[p].op = "accept" THEN "update" ELSE "write"]
       ELSE Ends(p, "BAD_REQUEST")
    /\ UNCHANGED <<friendships, last, started>>

\* decline: the update
DeclineWrite(p) ==
    /\ calls[p].op = "decline"
    /\ calls[p].pc = "write"
    /\ friendships' = declineMutation(friendships, calls[p].userId,
                                      calls[p].friendUserId)
    /\ Ends(p, "ok")
    /\ UNCHANGED <<last, started>>

\* the table as the transaction of request p reads it: the committed rows
\* with the transaction's own updates (read committed)
TxView(p) ==
    {IF r.id \in calls[p].upd THEN [r EXCEPT !.status = "accepted"] ELSE r
        : r \in friendships}

\* accept, first statement, in the transaction: the ids of the rows it sets
\* to accepted
acceptUpdateIds(rows, userId, friendUserId) ==
    {r.id : r \in EdgeRows(rows, userId, friendUserId)}

AcceptUpdate(p) ==
    /\ calls[p].op = "accept"
    /\ calls[p].pc = "update"
    /\ calls' = [calls EXCEPT
                    ![p].upd = acceptUpdateIds(TxView(p), calls[p].userId,
                                               calls[p].friendUserId),
                    ![p].pc = "select"]
    /\ UNCHANGED <<friendships, last, started>>

\* accept, second statement, in the transaction
AcceptSelect(p) ==
    /\ calls[p].op = "accept"
    /\ calls[p].pc = "select"
    /\ \E existing \in existingFriendship(TxView(p), calls[p].userId,
                                          calls[p].friendUserId) :
          calls' = [calls EXCEPT ![p].existing = existing,
                                 ![p].pc = "reciprocal"]
    /\ UNCHANGED <<friendships, last, started>>

\* variant of the statement below that always inserts
AlwaysInsertReciprocal(call) ==
    [call EXCEPT !.ins = {[userId |-> call.friendUserId,
                           friendUserId |-> call.userId]}]

\* accept, third statement, in the transaction: the update by id when a row
\* was found, the insert of (friendUserId -> userId) otherwise
acceptReciprocalWrites(call) ==
    IF call.existing # NoRow
    THEN [call EXCEPT !.upd = call.upd \cup {call.existing}]
    ELSE [call EXCEPT !.ins = {[userId |-> call.friendUserId,
                                friendUserId |-> call.userId]}]

AcceptReciprocal(p) ==
    /\ calls[p].op = "accept"
    /\ calls[p].pc = "reciprocal"
    /\ calls' = [calls EXCEPT
                    ![p] = [acceptReciprocalWrites(calls[p])
                               EXCEPT !.pc = "commit"]]
    /\ UNCHANGED <<friendships, last, started>>

\* the committed table with the rows of a set of pending inserts added
RECURSIVE InsertAll(_, _)
InsertAll(rows, pending) ==
    IF pending = {} THEN rows
    ELSE LET i == CHOOSE x \in pending : TRUE
         IN InsertAll(InsertRow(rows, i.userId, i.friendUserId, "accepted"),
                      pending \ {i})

\* the callback returned: the transaction commits its writes at once
AcceptCommit(p) ==
    /\ calls[p].op = "accept"
    /\ calls[p].pc = "commit"
    /\ friendships' = InsertAll(TxView(p), calls[p].ins)
    /\ Ends(p, "ok")
    /\ UNCHANGED <<last, started>>

\* a statement of the transaction throws: nothing is committed
AcceptFail(p) ==
    /\ calls[p].op = "accept"
    /\ calls[p].pc \in {"update", "select", "reciprocal"}
    /\ Ends(p, "INTERNAL_SERVER_ERROR")
    /\ UNCHANGED <<friendships, last, started>>

NextConc ==
    \E p \in Procs :
        \/ \E op \in {"send", "accept", "decline"} :
           \E userId \in ConcUsers, friendUserId \in ConcUsers :
              Begin(p, op, userId, friendUserId)
        \/ SendGuard(p)
        \/ SendLookup(p)
        \/ SendWrite(p)
        \/ AnswerGuard(p)
        \/ DeclineWrite(p)
        \/ AcceptUpdate(p)
        \/ AcceptSelect(p)
        \/ AcceptReciprocal(p)
        \/ AcceptCommit(p)
        \/ AcceptFail(p)

SpecConc == Init /\ [][NextConc]_vars

----------------------------------------------------------------------------
(* Properties *)

\* the pair (u, f) has exactly one row, and its status is s
OneRow(rows, u, f, s) ==
    /\ Cardinality(EdgeRows(rows, u, f)) = 1
    /\ EdgeStatuses(rows, u, f) = {s}

\* the rows outside the ordered pair (u, f) are the same in both tables, and
\* no row of any pair was inserted or removed
OnlyPairUpdated(before, after, u, f) ==
    /\ before \ EdgeRows(before, u, f) = after \ EdgeRows(after, u, f)
    /\ {r.id : r \in before} = {r.id : r \in after}

\* the rows outside the ordered pair (u, f) are the same in both tables
OthersUnchanged(before, after, u, f) ==
    before \ EdgeRows(before, u, f) = after \ EdgeRows(after, u, f)

\* the last call was op and it returned normally
Succeeded(call, op) == call.op = op /\ call.result = "ok"

\* C1: after send(A,B) and then accept by B for requester A, with A # B and
\* no edge (B,A) before the accept, both (A,B) and (B,A) are accepted and
\* the pair holds no other status.
AcceptSymmetry ==
    ( /\ Succeeded(last, "accept")
      /\ last.userId # last.friendUserId
      /\ last.prev = {} )
    => /\ EdgeStatuses(friendships, last.friendUserId, last.userId) = {"accepted"}
       /\ EdgeStatuses(friendships, last.userId, last.friendUserId) = {"accepted"}

\* C2: whenever an edge (A,B) is accepted, an edge (B,A) is accepted too.
AcceptedIsSymmetric ==
    \A r \in friendships :
        r.status = "accepted"
        => "accepted" \in EdgeStatuses(friendships, r.friendUserId, r.userId)

\* C3: every ordered pair (userId, friendUserId) has at most one row.
AtMostOneRowPerPair ==
    \A u \in Ids, f \in Ids : Cardinality(EdgeRows(friendships, u, f)) <= 1

\* a send found a row of its pair, and the pair still has one row, among
\* rows of other pairs
UpsertReplaced ==
    /\ Succeeded(last, "send")
    /\ last.prev # {}
    /\ Cardinality(EdgeRows(friendships, last.userId, last.friendUserId)) = 1
    /\ Cardinality(friendships) > 1

\* C4: a decline by B that directly follows a successful send(A,B) succeeds
\* and leaves (A,B) declined; a send(A,B) that directly follows a successful
\* decline by B of A's request succeeds and leaves exactly one row (A,B),
\* with status requested.
ResendAfterDecline ==
    [][ /\ ( /\ Succeeded(last, "send")
             /\ last'.op = "decline"
             /\ last'.userId = last.friendUserId
             /\ last'.friendUserId = last.userId )
           => /\ last'.result = "ok"
              /\ OneRow(friendships', last.userId, last.friendUserId, "declined")
        /\ ( /\ Succeeded(last, "decline")
             /\ last'.op = "send"
             /\ last'.userId = last.friendUserId
             /\ last'.friendUserId = last.userId )
           => /\ last'.result = "ok"
              /\ OneRow(friendships', last'.userId, last'.friendUserId, "requested")
      ]_vars

\* a send has re-opened a declined edge
ResentAfterDecline ==
    /\ Succeeded(last, "send")
    /\ last.prev = {"declined"}
    /\ OneRow(friendships, last.userId, last.friendUserId, "requested")

\* C5: an accept in which a statement of the transaction throws leaves the
\* table as it was; an accept that changes the table has run all its
\* statements: no row of either direction of the pair is left non-accepted.
AcceptAllOrNothing ==
    [][ last'.op = "accept"
        => \/ friendships' = friendships
           \/ /\ last'.result = "ok"
              /\ EdgeStatuses(friendships', last'.userId, last'.friendUserId)
                    \subseteq {"accepted"}
              /\ EdgeStatuses(friendships', last'.friendUserId, last'.userId)
                    = {"accepted"}
      ]_vars

\* an accept failed after its first update had changed a row, and the
\* committed table shows neither direction accepted
AcceptRolledBack ==
    /\ last.op = "accept"
    /\ last.result = "INTERNAL_SERVER_ERROR"
    /\ last.failedAt = 3
    /\ last.userId # last.friendUserId
    /\ last.prev = {"declined"}
    /\ EdgeStatuses(friendships, last.userId, last.friendUserId) = {"declined"}
    /\ EdgeStatuses(friendships, last.friendUserId, last.userId) = {"requested"}

\* C6: accept or decline by caller C for requester R, when no edge (R,C) is
\* requested, fails with BAD_REQUEST and changes no row.
AnswerNeedsPendingRequest ==
    [][ ( /\ last'.op \in {"accept", "decline"}
          /\ "requested" \notin
                EdgeStatuses(friendships, last'.friendUserId, last'.userId) )
        => /\ last'.result = "BAD_REQUEST"
           /\ friendships' = friendships
      ]_vars

\* an accept or decline of an already declined request was rejected
AnswerRejected ==
    /\ last.op \in {"accept", "decline"}
    /\ last.result = "BAD_REQUEST"
    /\ EdgeStatuses(friendships, last.friendUserId, last.userId) = {"declined"}

\* C7: a successful decline by B of requester A sets (A,B) to declined and
\* inserts, updates and removes nothing else.
DeclineTouchesOnlyRequest ==
    [][ Succeeded(last', "decline")
        => /\ EdgeStatuses(friendships', last'.friendUserId, last'.userId)
                = {"declined"}
           /\ OnlyPairUpdated(friendships, friendships',
                              last'.friendUserId, last'.userId)
      ]_vars

\* a decline succeeded while the reciprocal edge and an edge of another
\* pair existed; the reciprocal edge is not declined
DeclinedWithReciprocal ==
    /\ Succeeded(last, "decline")
    /\ last.userId # last.friendUserId
    /\ last.prev = {"requested"}
    /\ EdgeStatuses(friendships, last.userId, last.friendUserId) = {"requested"}
    /\ EdgeStatuses(friendships, last.friendUserId, last.userId) = {"declined"}
    /\ Cardinality(friendships) = 3

\* C8: send to an id that names no user fails with BAD_REQUEST and changes
\* no row.
SendNeedsExistingUser ==
    [][ ( last'.op = "send" /\ last'.friendUserId \notin users )
        => /\ last'.result = "BAD_REQUEST"
           /\ friendships' = friendships
      ]_vars

\* a send to an unknown id was rejected while the table held rows
SendRejected ==
    /\ last.op = "send"
    /\ last.friendUserId \notin users
    /\ last.result = "BAD_REQUEST"
    /\ friendships # {}

AcceptUpdatesReciprocal ==
    ( Succeeded(last, "accept") /\ last.prev # {} )
    => /\ OneRow(friendships, last.userId, last.friendUserId, "accepted")
       /\ OneRow(friendships, last.friendUserId, last.userId, "accepted")

\* an accept found a declined reciprocal edge and accepted both directions
AcceptedOverDeclined ==
    /\ Succeeded(last, "accept")
    /\ last.userId # last.friendUserId
    /\ last.prev = {"declined"}
    /\ OneRow(friendships, last.userId, last.friendUserId, "accepted")
    /\ OneRow(friendships, last.friendUserId, last.userId, "accepted")

\* the users F with both (a, F) accepted and (b, F) accepted
MutualFriends(rows, a, b) ==
    {f \in Ids : /\ "accepted" \in EdgeStatuses(rows, a, f)
                 /\ "accepted" \in EdgeStatuses(rows, b, f)}

\* the last call was getById for a friend whose edge from the caller is
\* accepted
ReadAcceptedFriend ==
    /\ last.op = "getById"
    /\ "accepted" \in EdgeStatuses(friendships, last.userId, last.friendUserId)

\* C11: getById by A for B, with (A,B) accepted, returns mutualFriendCount
\* equal to the number of users F with (A,F) and (B,F) both accepted.
MutualCountCorrect ==
    ReadAcceptedFriend
    => /\ last.result = "ok"
       /\ last.data.mutualFriendCount =
            Cardinality(MutualFriends(friendships, last.userId,
                                      last.friendUserId))

\* C12: getById by A for B, with (A,B) accepted and no mutual friend,
\* succeeds and returns mutualFriendCount = 0.
MutualCountZero ==
    ( /\ ReadAcceptedFriend
      /\ MutualFriends(friendships, last.userId, last.friendUserId) = {} )
    => /\ last.result = "ok"
       /\ last.data.mutualFriendCount = 0

\* C13: getById by A for B fails with NOT_FOUND whenever (A,B) is not
\* accepted, whatever the status of (B,A); it succeeds only when (A,B) is
\* accepted.
GetByIdNeedsAcceptedEdge ==
    last.op = "getById"
    => /\ "accepted" \notin
            EdgeStatuses(friendships, last.userId, last.friendUserId)
          => last.result = "NOT_FOUND"
       /\ last.result = "ok"
          => "accepted" \in
               EdgeStatuses(friendships, last.userId, last.friendUserId)

\* getById was refused for a requested edge whose reciprocal is accepted
GetByIdRefused ==
    /\ last.op = "getById"
    /\ last.result = "NOT_FOUND"
    /\ last.userId # last.friendUserId
    /\ EdgeStatuses(friendships, last.userId, last.friendUserId) = {"requested"}
    /\ EdgeStatuses(friendships, last.friendUserId, last.userId) = {"accepted"}

\* C14: getById by A for B, with (A,B) accepted, returns the five fields id,
\* fullName, phoneNumber, totalFriendCount and mutualFriendCount, with
\* totalFriendCount the number of accepted edges whose userId is B.
GetByIdFiveFields ==
    ReadAcceptedFriend
    => /\ last.result = "ok"
       /\ DOMAIN last.data = {"id", "fullName", "phoneNumber",
                              "totalFriendCount", "mutualFriendCount"}
       /\ last.data.totalFriendCount =
            Cardinality({r \in friendships :
                            /\ r.userId = last.friendUserId
                            /\ r.status = "accepted"})

\* the rows of the two directions of the pair {u, f}
PairRows(rows, u, f) == EdgeRows(rows, u, f) \cup EdgeRows(rows, f, u)

\* C19: a successful accept by B for A leaves every edge outside the pair
\* {A,B} as it was, and getById changes no edge.
AcceptAndReadFrame ==
    [][ /\ Succeeded(last', "accept")
           => friendships \ PairRows(friendships, last'.userId,
                                     last'.friendUserId)
              = friendships' \ PairRows(friendships', last'.userId,
                                        last'.friendUserId)
        /\ last'.op = "getById" => friendships' = friendships
      ]_vars

\* an accept succeeded while the caller had a pending request of its own to
\* a third user, which is still pending
AcceptedBesideOtherEdge ==
    /\ Succeeded(last, "accept")
    /\ last.userId # last.friendUserId
    /\ \E r \in friendships :
           /\ r.userId = last.userId
           /\ r.friendUserId \notin {last.userId, last.friendUserId}
           /\ r.status = "requested"

----------------------------------------------------------------------------
(* Properties of the interleaved execution *)

\* request p runs, or has run, op for (userId, friendUserId)
Runs(p, op, userId, friendUserId) ==
    /\ calls[p].op = op
    /\ calls[p].userId = userId
    /\ calls[p].friendUserId = friendUserId

\* the call of request p has returned normally
Returned(p) == calls[p].pc = "done" /\ calls[p].result = "ok"

\* C15: when two interleaved send(A,B) calls have both returned, the table
\* holds exactly one row (A,B), with status requested.
ConcurrentSendsOneRow ==
    \A a \in ConcUsers, b \in ConcUsers :
        ( \A p \in Procs : /\ Runs(p, "send", a, b)
                           /\ Returned(p)
                           /\ ~calls[p].mixed )
        => OneRow(friendships, a, b, "requested")

\* request p is in an accept that has passed the guard and has overlapped
\* with no call of another kind
AcceptPastGuard(p) ==
    /\ calls[p].op = "accept"
    /\ ~calls[p].mixed
    /\ \/ calls[p].pc \in {"update", "select", "reciprocal", "commit"}
       \/ /\ calls[p].pc = "done"
          /\ calls[p].result \in {"ok", "INTERNAL_SERVER_ERROR"}

\* both requests are accepts by b for requester a, past the guard
BothAccept(b, a) ==
    \A p \in Procs : Runs(p, "accept", b, a) /\ AcceptPastGuard(p)

\* C16: while two accepts by B for requester A, both past the guard, run
\* interleaved on a table with one row (A,B) and at most one row (B,A),
\* (A,B) keeps exactly one row and (B,A) at most one, and the committed
\* table changes only by the commit of one of them, which leaves every row
\* of the pair accepted: all writes of a call or none.
ConcurrentAcceptsAtomic ==
    [][ \A a \in ConcUsers, b \in ConcUsers :
          ( /\ BothAccept(b, a)
            /\ BothAccept(b, a)'
            /\ Cardinality(EdgeRows(friendships, a, b)) = 1
            /\ Cardinality(EdgeRows(friendships, b, a)) <= 1 )
          => /\ Cardinality(EdgeRows(friendships', a, b)) = 1
             /\ Cardinality(EdgeRows(friendships', b, a)) <= 1
             /\ friendships' # friendships
                => /\ \E p \in Procs : /\ calls[p].pc = "commit"
                                        /\ calls'[p].pc = "done"
                                        /\ calls'[p].result = "ok"
                   /\ EdgeStatuses(friendships', a, b) = {"accepted"}
                   /\ EdgeStatuses(friendships', b, a) \subseteq {"accepted"}
      ]_vars

\* two interleaved accepts of the same request have both committed, the
\* reciprocal edge existing: one accepted row in each direction
BothAcceptsCommitted ==
    \E a \in ConcUsers, b \in ConcUsers :
        /\ a # b
        /\ BothAccept(b, a)
        /\ \A p \in Procs : Returned(p)
        /\ OneRow(friendships, a, b, "accepted")
        /\ OneRow(friendships, b, a, "accepted")

\* C17: an accept or decline writes to the request edge (A,B) only while
\* that edge is still requested.
AnswerWritesOnlyPending ==
    [][ \A p \in Procs :
          ( /\ calls[p].op \in {"accept", "decline"}
            /\ calls[p].pc \in {"write", "commit"}
            /\ calls'[p].pc = "done" )
          => EdgeStatuses(friendships, calls[p].friendUserId,
                          calls[p].userId) = {"requested"}
      ]_vars

----------------------------------------------------------------------------
(* Self-edges *)

\* C18 as stated: no row has userId = friendUserId.
NoSelfEdge ==
    \A r \in friendships : r.userId # r.friendUserId

\* C18: every row joins ids of existing users, and userId may equal
\* friendUserId: a send by a user to their own id passes the guard and
\* leaves one row (A,A), with status requested.
EdgesJoinUsersSelfAllowed ==
    [][ /\ \A r \in friendships' :
              r.userId \in users /\ r.friendUserId \in users
        /\ ( last'.op = "send" /\ last'.userId = last'.friendUserId )
           => /\ last'.result = "ok"
              /\ OneRow(friendships', last'.userId, last'.userId, "requested")
      ]_vars

\* a user has sent a request to their own id and the self-edge is stored
SelfEdgeWritten ==
    /\ Succeeded(last, "send")
    /\ last.userId = last.friendUserId
    /\ last.prev = {}
    /\ OneRow(friendships, last.userId, last.userId, "requested")

====
